---- MODULE Spec2Model ----
(***************************************************************************)
(* A model of the page-extraction tools of src/tools.py:                   *)
(*   create_csv_file        schema inference + batched row extraction      *)
(*   scrape_multiple_links  link fan-out + map/reduce page summarization   *)
(* Every tool invocation is a job.  A job's local variables are kept per   *)
(* job; the file system under output/, the clock and the web are shared.   *)
(*                                                                         *)
(* A text is a run of characters of one rendered page.  The characters of  *)
(* a page are told apart by their position, so a substring of the page is  *)
(* the span [lo, hi) of the positions it holds, and the empty string is    *)
(* the one span EmptyText.                                                 *)
(***************************************************************************)
EXTENDS Integers, Sequences, FiniteSets, TLC

\* ------------------------------------------------------------ bounds
\* Pages hold up to MaxWindows whole windows after the schema head (+-1 char).
MaxWindows == 2
\* The generation service returns at most this many rows in one response.
MaxRowsPerCall == 1
\* Seconds the clock may advance during a run.
MaxClock == 1
\* The parent page holds at most this many <a> elements.
MaxAnchors == 3
\* The largest max_links argument tried (the smallest is -1).
MaxMaxLinks == 3
\* The ranking answer names at most this many URLs.
MaxRanked == 2

\* The accounts registered, the tokens generated and the hours that pass.
MaxUsers == 1
MaxTokens == 3
MaxHour == 1

\* The messages stored, the session ids uuid4 makes and the agent runs that
\* raise.
MaxMessages == 21
MaxUuids == 1
MaxFailures == 1

\* The agent documents inserted and the tool ids one request names.
MaxAgents == 1
MaxToolRefs == 2

\* --------------------------------------------------- program constants
max_tokens == 12000
head_size == 4000
batch_size == 4000

Jobs == {1, 2}

Min(a, b) == IF a <= b THEN a ELSE b
Max(a, b) == IF a >= b THEN a ELSE b

\* ------------------------------------------------------------- texts
EmptyText == [lo |-> 0, hi |-> 0]

PageText(n) == IF n = 0 THEN EmptyText ELSE [lo |-> 0, hi |-> n]

\* len(text)
TextLen(t) == t.hi - t.lo

\* text[a:b] for 0 <= a, 0 <= b: both ends are clamped to len(text).
PySlice(t, a, b) ==
    LET n == TextLen(t)
        s == Min(a, n)
        e == Min(b, n)
    IN  IF s >= e THEN EmptyText ELSE [lo |-> t.lo + s, hi |-> t.lo + e]

\* text[a:]
PySliceFrom(t, a) == PySlice(t, a, TextLen(t))


\* -------------------------------------------------------------- URLs
\* A URL is its scheme (a string of characters) and the rest of it.
Https == <<"h", "t", "t", "p", "s">>
Http == <<"h", "t", "t", "p">>
Mailto == <<"m", "a", "i", "l", "t", "o">>
Httpx == <<"h", "t", "t", "p", "x">>

Parent == [scheme |-> Https, rest |-> "parent"]

\* The URLs the anchors of the parent page may point to.
UrlA == [scheme |-> Https, rest |-> "a"]
UrlB == [scheme |-> Http, rest |-> "b"]
UrlM == [scheme |-> Mailto, rest |-> "m"]
LinkUrls == {UrlA, UrlB, UrlM}

\* A URL whose scheme begins with "http" and is neither http nor https.
UrlX == [scheme |-> Httpx, rest |-> "x"]
AllUrls == LinkUrls \cup {Parent, UrlX}

\* -------------------------------------------- the generation service
\* Column names the service may use, the schemas and the rows it may return.
\* A row is the set of its keys; its values play no part in the control flow.
Schemas == {<<"a", "b">>, <<"a">>}
RowShapes == {{"a", "b"}, {"a"}, {"a", "b", "c"}}
FixedSchema == <<"a", "b">>
FixedRow == {"a", "b"}

Range(f) == {f[k] : k \in DOMAIN f}

\* The row lists of one response: up to MaxRowsPerCall rows of one shape.
RowLists == {[m \in 1..n |-> s] : n \in 0..MaxRowsPerCall, s \in RowShapes}

\* The kinds of service a job may face:
\*   "fixed"  every call answers schema ["a","b"] and the row {"a":"1","b":"2"}
\*   "zero"   every batch call answers {"rows": []}; the schema call is free
\*   "free"   every call answers anything, or fails
ServiceKinds == {"fixed", "zero", "free"}

Resp(tag, schema, rows) == [tag |-> tag, row_schema |-> schema, rows |-> rows]

\* Answers to the structure prompt (src/tools.py:144-148).
\*   "raise"          the call itself raises
\*   "not_json"       the content is not parseable JSON
\*   "no_row_schema"  a JSON object without row_schema
\*   "no_rows"        a JSON object without rows
\*   "ok"             a JSON object with row_schema and rows
SchemaOk == {Resp("ok", s, r) : s \in Schemas, r \in RowLists}
SchemaBad == {Resp(t, <<>>, <<>>) : t \in {"raise", "not_json", "no_row_schema", "no_rows"}}

SchemaResponses(svc) ==
    CASE svc = "fixed" -> {Resp("ok", FixedSchema, <<FixedRow>>)}
      [] svc = "zero"  -> SchemaOk
      [] OTHER         -> SchemaOk \cup SchemaBad

\* Answers to a batch prompt (src/tools.py:186-190).
\*   "raise"        the call itself raises
\*   "not_json"     the content is not parseable JSON
\*   "null"         the JSON value null the prompt asks for
\*   "rows_absent"  a JSON object without rows
\*   "rows_null"    {"rows": null}
\*   "ok"           {"rows": [...]}, the list possibly empty
BatchOk == {Resp("ok", <<>>, r) : r \in RowLists}
BatchOther == {Resp(t, <<>>, <<>>) : t \in {"raise", "not_json", "null", "rows_absent", "rows_null"}}

BatchResponses(svc) ==
    CASE svc = "fixed" -> {Resp("ok", FixedSchema, <<FixedRow>>)}
      [] svc = "zero"  -> {Resp("ok", <<>>, <<>>)}
      [] OTHER         -> BatchOk \cup BatchOther

\* Missing keys read with a default instead of raising.
SchemaRaisesLenient(resp) == resp.tag \in {"raise", "not_json"}

\* json.loads(...) then initial_data["row_schema"], initial_data["rows"] raise.
SchemaRaises(resp) == resp.tag \in {"raise", "not_json", "no_row_schema", "no_rows"}

\* A failed batch call taken as a batch without rows.
BatchRaisesNever(resp) == FALSE

\* json.loads(...) or batch_data.get raise (None has no get).
BatchRaises(resp) == resp.tag \in {"raise", "not_json", "null"}

\* A default row where rows is absent or null.
BatchGetRowsDefault(resp) == IF resp.tag = "ok" THEN resp.rows ELSE <<FixedRow>>

\* batch_data.get("rows"): None when absent or null.
BatchGetRows(resp) == IF resp.tag = "ok" THEN resp.rows ELSE <<>>

\* The rows of the k-th call's response, each marked with the call and its place.
TagRows(k, rows) == [m \in 1..Len(rows) |-> [call |-> k, n |-> m, keys |-> rows[m]]]

\* ------------------------------------------------------ output files
NoName == [prefix |-> "", ts |-> 0]
CsvName(ts) == [prefix |-> "structured_data", ts |-> ts]
ZipName(ts) == [prefix |-> "scraped_content", ts |-> ts]

Unset == [tag |-> "unset", file |-> NoName]
None == [tag |-> "none", file |-> NoName]
ErrorStr == [tag |-> "error", file |-> NoName]
get_static_url(filename) == [tag |-> "url", file |-> filename]

\* csv.DictWriter(fieldnames=row_schema): a row with a key outside fieldnames
\* raises ValueError (extrasaction defaults to "raise"); a missing key does not.
RowRaises(schema, row) == ~(row.keys \subseteq Range(schema))

WriteRaises(schema, rows) == \E k \in 1..Len(rows) : RowRaises(schema, rows[k])

\* The rows on disk after writerows: all of them, or those before the first
\* row that raises.
FirstBad(schema, rows) ==
    IF WriteRaises(schema, rows)
    THEN CHOOSE k \in 1..Len(rows) :
            /\ RowRaises(schema, rows[k])
            /\ \A m \in 1..(k - 1) : ~RowRaises(schema, rows[m])
    ELSE Len(rows) + 1

WrittenRows(schema, rows) == SubSeq(rows, 1, FirstBad(schema, rows) - 1)

\* The header taken from the keys of the first row instead of the schema.
CsvFileOfKeys(schema, rows) ==
    [header |-> SelectSeq(<<"a", "b", "c">>, LAMBDA c : c \in rows[1].keys),
     rows |-> WrittenRows(schema, rows)]

CsvFile(schema, rows) == [header |-> schema, rows |-> WrittenRows(schema, rows)]


\* ------------------------------------------------------ page lengths
\* The lengths of visible text a page may have: around every window border.
ShortLens ==
    {0, 1, 9000} \cup
    {head_size + w * batch_size + d : w \in 0..MaxWindows, d \in {-1, 0, 1}}

\* Around the content budget of max_tokens * 4 characters.
LongLens == {max_tokens * 4 + d : d \in {-1, 0, 1}}

Contexts == {"", "ctx"}

\* ------------------------------------------------------------- state
VARIABLES
    clock,          \* the second datetime.now() last returned
    output_dir,     \* whether the directory output/ exists
    fs,             \* the files under output/: name -> content
    web,            \* the visible-text length of every page: URL -> length
    anchors,        \* the <a> elements of the parent page, in document order
    kind,           \* per job: "csv", "scrape" or "none" (no such job)
    url,            \* per job: argument url
    context,        \* per job: argument context
    max_links,      \* per job: argument max_links
    service,        \* per job: the kind of generation service it faces
    pc,             \* per job: where the job stands
    closes,         \* per job: how often browser.close() has run
    calls,          \* per job: the generation calls issued, with their answers
    result,         \* per job: the value returned
    exit,           \* per job: the return taken: "empty", "done" or "failed"
    visible_text,   \* per job: local visible_text
    row_schema,     \* per job: local row_schema
    all_rows,       \* per job: local all_rows
    remaining_text, \* per job: local remaining_text
    i,              \* per job: loop variable i (batch offset; link index)
    valid_links,    \* per job: local valid_links
    links,          \* per job: local links
    zip_filename,   \* per job: local zip_filename
    summaries,      \* per job: local summaries
    j,              \* per job: loop variable j (chunk offset in a page)
    launches,       \* per job: how many times chromium.launch has run
    renders,        \* per job: the page.goto calls made, with their outcome
    users,          \* db.users: email -> user document
    issued,         \* how many tokens generate_verification_token has made
    hour,           \* datetime.utcnow(), in hours
    request_history,\* db.request_history, in insertion order
    uuids,          \* how many session ids uuid4 has made
    failures,       \* how many agent runs have raised
    agents,         \* db.agents: agent id -> agent document
    inserted,       \* how many agent documents have been inserted
    reply           \* the last request to the HTTP API with its answer

shared == <<clock, output_dir, fs>>
world == <<web, anchors>>
args == <<kind, url, context, max_links, service>>
csvLocals == <<row_schema, all_rows, remaining_text>>
scrapeLocals == <<valid_links, links, zip_filename, summaries, j>>
session == <<launches, renders>>
toolVars == <<shared, world, args, pc, closes, calls, result, exit, visible_text, i,
              csvLocals, scrapeLocals, session>>
auth == <<users, issued, hour>>
chat == <<request_history, uuids, failures>>
registry == <<agents, inserted>>
backend == <<auth, chat, registry, reply>>
vars == <<toolVars, backend>>

\* One page.goto with the text extraction that follows it: the place of the
\* page in the link list (0 before the list exists) and whether it raised.
Goto(page, ok) == [page |-> page, ok |-> ok]

\* One generation call as the service saw it.
Call(k, page, text, schema, parts, resp) ==
    [kind |-> k, page |-> page, text |-> text, schema |-> schema,
     parts |-> parts, resp |-> resp]

\* ---------------------------------------------------- create_csv_file
\* The truncation left out.
TruncateNothing(text) == text

\* visible_text[:max_tokens * 4]
Truncate(text) == PySlice(text, 0, max_tokens * 4)

\* The structure prompt over the whole text.
SchemaHeadWhole(text) == text

\* visible_text[:4000], the content of the structure prompt
SchemaHead(text) == PySlice(text, 0, head_size)

\* visible_text[4000:]
Remaining(text) == PySliceFrom(text, head_size)

\* remaining_text[i:i + batch_size]
BatchAt(text, off) == PySlice(text, off, off + batch_size)

\* A loop step one character too long: a character is lost between chunks.
NextOffsetSkips(off) == off + batch_size + 1

\* the next value of range(0, len(remaining_text), batch_size)
NextOffset(off) == off + batch_size

\* the loop over range(0, len(remaining_text), batch_size) has a next value
InRange(off, text) == off < TextLen(text)

\* The empty check left out.
NoRowsNever(rows) == FALSE

\* if not all_rows
NoRows(rows) == rows = <<>>

\* return None after "No structured data found"
CsvEmptyResult == None

\* return None in the except clause
CsvErrorResult == None

\* The except clause without the finally clause: the browser stays open.
CsvFailLeaks(job) ==
    /\ result' = [result EXCEPT ![job] = CsvErrorResult]
    /\ exit' = [exit EXCEPT ![job] = "failed"]
    /\ closes' = closes
    /\ pc' = [pc EXCEPT ![job] = "returned"]

\* except Exception: return None; finally: browser.close()
CsvFail(job) ==
    /\ result' = [result EXCEPT ![job] = CsvErrorResult]
    /\ exit' = [exit EXCEPT ![job] = "failed"]
    /\ closes' = [closes EXCEPT ![job] = @ + 1]
    /\ pc' = [pc EXCEPT ![job] = "returned"]

\* async_playwright(), chromium.launch, browser.new_page
CsvLaunch(job) ==
    /\ kind[job] = "csv"
    /\ pc[job] = "idle"
    /\ pc' = [pc EXCEPT ![job] = "goto"]
    /\ launches' = [launches EXCEPT ![job] = @ + 1]
    /\ UNCHANGED <<shared, world, args, closes, calls, result, exit, visible_text, i,
                   csvLocals, scrapeLocals, renders>>
    /\ UNCHANGED backend

\* Stages 1 and 2: page.goto ... extract_visible_text, then the truncation.
CsvRender(job) ==
    /\ kind[job] = "csv"
    /\ pc[job] = "goto"
    /\ \/ /\ CsvFail(job)
          /\ renders' = [renders EXCEPT ![job] = Append(@, Goto(0, FALSE))]
          /\ UNCHANGED visible_text
       \/ /\ visible_text' = [visible_text EXCEPT ![job] = Truncate(PageText(web[url[job]]))]
          /\ renders' = [renders EXCEPT ![job] = Append(@, Goto(0, TRUE))]
          /\ pc' = [pc EXCEPT ![job] = "schema"]
          /\ UNCHANGED <<closes, result, exit>>
    /\ UNCHANGED <<shared, world, args, calls, i, csvLocals, scrapeLocals, launches>>
    /\ UNCHANGED backend

\* Stage 3: the structure prompt and its answer.
CsvSchemaCall(job) ==
    /\ kind[job] = "csv"
    /\ pc[job] = "schema"
    /\ \E resp \in SchemaResponses(service[job]) :
          /\ calls' = [calls EXCEPT ![job] =
                         Append(@, Call("schema", 0, SchemaHead(visible_text[job]),
                                        <<>>, <<>>, resp))]
          /\ IF SchemaRaises(resp)
             THEN /\ CsvFail(job)
                  /\ UNCHANGED <<i, csvLocals>>
             ELSE /\ row_schema' = [row_schema EXCEPT ![job] = resp.row_schema]
                  /\ all_rows' = [all_rows EXCEPT ![job] =
                                    TagRows(Len(calls[job]) + 1, resp.rows)]
                  /\ remaining_text' = [remaining_text EXCEPT ![job] =
                                          Remaining(visible_text[job])]
                  /\ i' = [i EXCEPT ![job] = 0]
                  /\ pc' = [pc EXCEPT ![job] = "batch"]
                  /\ UNCHANGED <<closes, result, exit>>
    /\ UNCHANGED <<shared, world, args, visible_text, scrapeLocals, session>>
    /\ UNCHANGED backend

\* Only the rows that differ from every row already in the list are added.
ExtendRowsDistinct(rows, job, new_rows) ==
    [rows EXCEPT ![job] =
       @ \o SelectSeq(new_rows,
                      LAMBDA r : \A p \in 1..Len(rows[job]) : rows[job][p].keys # r.keys)]

\* One list of rows for all jobs, as a module-level list would be.
ExtendRowsShared(rows, job, new_rows) == [jb \in Jobs |-> rows[jb] \o new_rows]

\* all_rows.extend(new_rows) on the list of the job
ExtendRows(rows, job, new_rows) == [rows EXCEPT ![job] = @ \o new_rows]

\* Stage 4: one pass of the batch loop.
CsvBatchCall(job) ==
    /\ kind[job] = "csv"
    /\ pc[job] = "batch"
    /\ InRange(i[job], remaining_text[job])
    /\ \E resp \in BatchResponses(service[job]) :
          /\ calls' = [calls EXCEPT ![job] =
                         Append(@, Call("batch", 0, BatchAt(remaining_text[job], i[job]),
                                        row_schema[job], <<>>, resp))]
          /\ IF BatchRaises(resp)
             THEN /\ CsvFail(job)
                  /\ UNCHANGED <<i, all_rows>>
             ELSE /\ all_rows' = ExtendRows(all_rows, job,
                                           TagRows(Len(calls[job]) + 1, BatchGetRows(resp)))
                  /\ i' = [i EXCEPT ![job] = NextOffset(@)]
                  /\ UNCHANGED <<pc, closes, result, exit>>
    /\ UNCHANGED <<shared, world, args, visible_text, row_schema, remaining_text,
                   scrapeLocals, session>>
    /\ UNCHANGED backend

\* The end of the loop: the empty return, or the CSV file and its URL.
CsvFinish(job) ==
    /\ kind[job] = "csv"
    /\ pc[job] = "batch"
    /\ ~InRange(i[job], remaining_text[job])
    /\ pc' = [pc EXCEPT ![job] = "returned"]
    /\ IF NoRows(all_rows[job])
       THEN /\ result' = [result EXCEPT ![job] = CsvEmptyResult]
            /\ exit' = [exit EXCEPT ![job] = "empty"]
            /\ closes' = [closes EXCEPT ![job] = @ + 1]
            /\ UNCHANGED shared
       ELSE \E now \in clock..MaxClock :
            /\ clock' = now
            /\ output_dir' = TRUE
            /\ fs' = (CsvName(now) :> CsvFile(row_schema[job], all_rows[job])) @@ fs
            /\ IF WriteRaises(row_schema[job], all_rows[job])
               THEN /\ result' = [result EXCEPT ![job] = CsvErrorResult]
                    /\ exit' = [exit EXCEPT ![job] = "failed"]
                    /\ closes' = [closes EXCEPT ![job] = @ + 1]
               ELSE /\ result' = [result EXCEPT ![job] = get_static_url(CsvName(now))]
                    /\ exit' = [exit EXCEPT ![job] = "done"]
                    /\ closes' = [closes EXCEPT ![job] = @ + 2]
    /\ UNCHANGED <<world, args, calls, visible_text, i, csvLocals, scrapeLocals, session>>
    /\ UNCHANGED backend


\* ---------------------------------------------- scrape_multiple_links
\* str.startswith
StartsWith(str, prefix) ==
    /\ Len(str) >= Len(prefix)
    /\ SubSeq(str, 1, Len(prefix)) = prefix

\* link['url'].startswith('http')
IsHttpLink(link) == StartsWith(link.url.scheme, Http)

\* [link for link in links_with_text if link['url'].startswith('http')]
HttpLinks(found) == SelectSeq(found, IsHttpLink)

\* [link for link in valid_links if link['url'] in relevant_urls]
RelevantLinks(valid, relevant_urls) ==
    SelectSeq(valid, LAMBDA link : link.url \in Range(relevant_urls))

\* seq[:k]: the first k elements, or all but the last -k when k is negative.
PyTake(seq, k) ==
    IF k >= 0
    THEN SubSeq(seq, 1, Min(k, Len(seq)))
    ELSE SubSeq(seq, 1, Max(0, Len(seq) + k))

\* valid_links[:max_links-1]
CutLinks(valid, max) == PyTake(valid, max - 1)

\* [url] + [link['url'] for link in valid_links]
LinkList(parent, valid) == <<parent>> \o [k \in 1..Len(valid) |-> valid[k].url]

\* if context and valid_links
NeedsRanking(ctx, valid) == ctx # "" /\ valid # <<>>

\* Answers to the relevance prompt (src/tools.py:301-307).
\*   "raise"             the call itself raises
\*   "not_json"          the content is not parseable JSON
\*   "no_relevant_urls"  a JSON object without relevant_urls
\*   "ok"                a JSON object with the list relevant_urls
RankUrls == {UrlA, UrlB}
RankOk == {[tag |-> "ok", urls |-> u] : u \in UNION {[1..n -> RankUrls] : n \in 0..MaxRanked}}
RankBad == {[tag |-> t, urls |-> <<>>] : t \in {"raise", "not_json", "no_relevant_urls"}}
RankResponses == RankOk \cup RankBad

\* json.loads(...)["relevant_urls"] raises.
RankRaises(resp) == resp.tag # "ok"

\* Answers to a summary prompt: a text, named by the call that produced it,
\* or an exception.
SummaryResponses == {[tag |-> "ok"], [tag |-> "raise"]}

\* The answers a job may get to a summary prompt under its service: under the
\* "steady" service every summary call answers (the other calls are free).
SummaryAnswers(svc) == IF svc = "steady" THEN {[tag |-> "ok"]} ELSE SummaryResponses

\* range(0, len(visible_text), batch_size) and visible_text[j:j + batch_size]
summary_batch_size == 4000
ChunkAt(text, off) == PySlice(text, off, off + summary_batch_size)
NextChunkOffset(off) == off + summary_batch_size

\* The reduce call also for a single partial summary.
NeedsReduceAlways(parts) == Len(parts) > 0

\* if len(summaries) > 1
NeedsReduce(parts) == Len(parts) > 1

\* The two archive entries of a page (src/tools.py:388-402), named by the
\* number of the page; the title and the time stamp of the content entry are
\* not kept.
ContentEntry(n, link, text, summary) ==
    [page |-> n, suffix |-> "json", url |-> link, content |-> text, summary |-> summary]
SummaryEntry(n, summary) ==
    [page |-> n, suffix |-> "summary.txt", summary |-> summary]

\* The outer except: return f"Error: ..."; finally: browser.close()
ScrapeFail(job) ==
    /\ result' = [result EXCEPT ![job] = ErrorStr]
    /\ exit' = [exit EXCEPT ![job] = "failed"]
    /\ closes' = [closes EXCEPT ![job] = @ + 1]
    /\ pc' = [pc EXCEPT ![job] = "returned"]

\* Lines 317-333: the cut, the link list, output/, the time stamp, the archive.
ScrapeSelect(job, valid) ==
    \E now \in clock..MaxClock :
       /\ valid_links' = [valid_links EXCEPT ![job] = CutLinks(valid, max_links[job])]
       /\ links' = [links EXCEPT ![job] =
                      LinkList(url[job], CutLinks(valid, max_links[job]))]
       /\ clock' = now
       /\ output_dir' = TRUE
       /\ zip_filename' = [zip_filename EXCEPT ![job] = ZipName(now)]
       /\ fs' = (ZipName(now) :> [entries |-> <<>>]) @@ fs
       /\ i' = [i EXCEPT ![job] = 0]
       /\ pc' = [pc EXCEPT ![job] = "page"]

ScrapeLaunch(job) ==
    /\ kind[job] = "scrape"
    /\ pc[job] = "idle"
    /\ pc' = [pc EXCEPT ![job] = "parent"]
    /\ launches' = [launches EXCEPT ![job] = @ + 1]
    /\ UNCHANGED <<shared, world, args, closes, calls, result, exit, visible_text, i,
                   csvLocals, scrapeLocals, renders>>
    /\ UNCHANGED backend

\* page.goto(url), the anchors, the http filter; without ranking, the selection.
ScrapeParent(job) ==
    /\ kind[job] = "scrape"
    /\ pc[job] = "parent"
    /\ \/ /\ ScrapeFail(job)
          /\ renders' = [renders EXCEPT ![job] = Append(@, Goto(0, FALSE))]
          /\ UNCHANGED <<shared, i, valid_links, links, zip_filename>>
       \/ /\ NeedsRanking(context[job], HttpLinks(anchors))
          /\ renders' = [renders EXCEPT ![job] = Append(@, Goto(0, TRUE))]
          /\ valid_links' = [valid_links EXCEPT ![job] = HttpLinks(anchors)]
          /\ pc' = [pc EXCEPT ![job] = "rank"]
          /\ UNCHANGED <<shared, i, links, zip_filename, closes, result, exit>>
       \/ /\ ~NeedsRanking(context[job], HttpLinks(anchors))
          /\ renders' = [renders EXCEPT ![job] = Append(@, Goto(0, TRUE))]
          /\ ScrapeSelect(job, HttpLinks(anchors))
          /\ UNCHANGED <<closes, result, exit>>
    /\ UNCHANGED <<world, args, calls, visible_text, csvLocals, summaries, j, launches>>
    /\ UNCHANGED backend

\* The relevance prompt, its answer, the relevance filter and the selection.
ScrapeRank(job) ==
    /\ kind[job] = "scrape"
    /\ pc[job] = "rank"
    /\ \E resp \in RankResponses :
          /\ calls' = [calls EXCEPT ![job] =
                         Append(@, Call("rank", 0, EmptyText, <<>>, valid_links[job], resp))]
          /\ IF RankRaises(resp)
             THEN /\ ScrapeFail(job)
                  /\ UNCHANGED <<shared, i, valid_links, links, zip_filename>>
             ELSE /\ ScrapeSelect(job, RelevantLinks(valid_links[job], resp.urls))
                  /\ UNCHANGED <<closes, result, exit>>
    /\ UNCHANGED <<world, args, visible_text, csvLocals, summaries, j, session>>
    /\ UNCHANGED backend

\* The loop left at the first link that is done or fails.
SkipLinkBreaks(job) ==
    /\ i' = [i EXCEPT ![job] = Len(links[job])]
    /\ pc' = [pc EXCEPT ![job] = "page"]

\* except Exception inside the loop: the link is skipped.
SkipLink(job) ==
    /\ i' = [i EXCEPT ![job] = @ + 1]
    /\ pc' = [pc EXCEPT ![job] = "page"]

\* for i, link in enumerate(links): page.goto(link) ... page.title()
ScrapePageGoto(job) ==
    /\ kind[job] = "scrape"
    /\ pc[job] = "page"
    /\ i[job] < Len(links[job])
    /\ \/ /\ SkipLink(job)
          /\ renders' = [renders EXCEPT ![job] = Append(@, Goto(i[job] + 1, FALSE))]
          /\ UNCHANGED <<visible_text, summaries, j>>
       \/ /\ visible_text' = [visible_text EXCEPT ![job] =
                                PageText(web[links[job][i[job] + 1]])]
          /\ renders' = [renders EXCEPT ![job] = Append(@, Goto(i[job] + 1, TRUE))]
          /\ summaries' = [summaries EXCEPT ![job] = <<>>]
          /\ j' = [j EXCEPT ![job] = 0]
          /\ pc' = [pc EXCEPT ![job] = "map"]
          /\ UNCHANGED i
    /\ UNCHANGED <<shared, world, args, closes, calls, result, exit, csvLocals,
                   valid_links, links, zip_filename, launches>>
    /\ UNCHANGED backend

\* The partial summary put in front of the list instead of at its end.
AppendSummaryFront(parts, batch_summary) == <<batch_summary>> \o parts

\* summaries.append(batch_summary)
AppendSummary(parts, batch_summary) == Append(parts, batch_summary)

\* One pass of the summary loop over the chunks of the page.
ScrapeMap(job) ==
    /\ kind[job] = "scrape"
    /\ pc[job] = "map"
    /\ InRange(j[job], visible_text[job])
    /\ \E resp \in SummaryAnswers(service[job]) :
          /\ calls' = [calls EXCEPT ![job] =
                         Append(@, Call("map", i[job] + 1,
                                        ChunkAt(visible_text[job], j[job]),
                                        <<>>, <<>>, resp))]
          /\ IF resp.tag = "raise"
             THEN /\ SkipLink(job)
                  /\ UNCHANGED <<summaries, j>>
             ELSE /\ summaries' = [summaries EXCEPT ![job] =
                                     AppendSummary(@, Len(calls[job]) + 1)]
                  /\ j' = [j EXCEPT ![job] = NextChunkOffset(@)]
                  /\ UNCHANGED <<i, pc>>
    /\ UNCHANGED <<shared, world, args, closes, result, exit, visible_text, csvLocals,
                   valid_links, links, zip_filename, session>>
    /\ UNCHANGED backend

\* The archive entries of the page under its final summary.
WritePage(job, final_summary) ==
    fs' = [fs EXCEPT ![zip_filename[job]].entries =
             @ \o <<ContentEntry(i[job] + 1, links[job][i[job] + 1],
                                 visible_text[job], final_summary),
                    SummaryEntry(i[job] + 1, final_summary)>>]

\* After the summary loop: the reduce call when len(summaries) > 1, else
\* summaries[0] (IndexError on an empty list), then the two archive entries.
ScrapeCombine(job) ==
    /\ kind[job] = "scrape"
    /\ pc[job] = "map"
    /\ ~InRange(j[job], visible_text[job])
    /\ SkipLink(job)
    /\ IF NeedsReduce(summaries[job])
       THEN \E resp \in SummaryAnswers(service[job]) :
               /\ calls' = [calls EXCEPT ![job] =
                              Append(@, Call("reduce", i[job] + 1, EmptyText, <<>>,
                                             summaries[job], resp))]
               /\ IF resp.tag = "raise"
                  THEN UNCHANGED fs
                  ELSE WritePage(job, Len(calls[job]) + 1)
       ELSE /\ UNCHANGED calls
            /\ IF Len(summaries[job]) = 1
               THEN WritePage(job, summaries[job][1])
               ELSE UNCHANGED fs
    /\ UNCHANGED <<clock, output_dir, world, args, closes, result, exit, visible_text,
                   csvLocals, scrapeLocals, session>>
    /\ UNCHANGED backend

\* After the link loop: the archive is closed and its URL returned.
ScrapeFinish(job) ==
    /\ kind[job] = "scrape"
    /\ pc[job] = "page"
    /\ i[job] >= Len(links[job])
    /\ result' = [result EXCEPT ![job] = get_static_url(zip_filename[job])]
    /\ exit' = [exit EXCEPT ![job] = "done"]
    /\ closes' = [closes EXCEPT ![job] = @ + 2]
    /\ pc' = [pc EXCEPT ![job] = "returned"]
    /\ UNCHANGED <<shared, world, args, calls, visible_text, i, csvLocals, scrapeLocals,
                   session>>
    /\ UNCHANGED backend

\* ------------------------------------------------------ auth/routes.py
\* The lifetime of a verification token and of a reset token, in hours.
verification_ttl == 24
reset_ttl == 1

Emails == {"u1@x", "u2@x"}
Passwords == {"p1", "p2"}

\* secrets.token_urlsafe(32): the n-th token made is n, different from every
\* token made before; 0 stands for a field that is not set.
Tokens == 1..MaxTokens
NoToken == 0
Never == -1

\* pwd_context.hash and pwd_context.verify
hash_password(password) == [scheme |-> "bcrypt", of |-> password]
verify_password(plain_password, hashed_password) ==
    hashed_password = hash_password(plain_password)

\* create_access_token(data={"sub": str(user["_id"])})
NoAccess == [sub |-> ""]
create_access_token(email) == [sub |-> email]

\* The user document register_user inserts.
NewUser(password, token, now) ==
    [password |-> hash_password(password),
     is_verified |-> FALSE,
     verification_token |-> token,
     verification_token_expires |-> now + verification_ttl,
     password_reset_token |-> NoToken,
     password_reset_expires |-> 0,
     last_login |-> Never,
     is_active |-> TRUE]

\* db.users.find_one({"email": email})
FindByEmail(email) == email \in DOMAIN users

\* db.users.find_one({"verification_token": token,
\*                    "verification_token_expires": {"$gt": now}})
FindByVerificationToken(token, now) ==
    {e \in DOMAIN users : /\ users[e].verification_token = token
                          /\ users[e].verification_token_expires > now}

\* db.users.find_one({"password_reset_token": token,
\*                    "password_reset_expires": {"$gt": now}})
FindByResetToken(token, now) ==
    {e \in DOMAIN users : /\ users[e].password_reset_token = token
                          /\ users[e].password_reset_expires > now}

\* One request with its answer, and the users collection it found.
AuthReply(endpoint, email, password, token, status, detail, access) ==
    [endpoint |-> endpoint, email |-> email, password |-> password, token |-> token,
     status |-> status, detail |-> detail, access |-> access, before |-> users]

NoReply == [endpoint |-> "", status |-> 0]

\* The answers of resend-verification and forgot-password.
ResendSent == "If the email exists, verification link sent"
ResendVerified == "Email already verified. You can login now."
ForgotSent == "If the email exists, you will receive a password reset link"

AuthInit ==
    /\ users = <<>>
    /\ issued = 0
    /\ hour = 0

\* POST /auth/register
register_user(email, password) ==
    /\ IF FindByEmail(email)
       THEN /\ reply' = AuthReply("register", email, password, NoToken, 400,
                                  "Email already registered", NoAccess)
            /\ UNCHANGED <<users, issued>>
       ELSE /\ Cardinality(DOMAIN users) < MaxUsers
            /\ issued < MaxTokens
            /\ issued' = issued + 1
            /\ users' = (email :> NewUser(password, issued + 1, hour)) @@ users
            /\ reply' = AuthReply("register", email, password, NoToken, 200,
                                  "User registered successfully", NoAccess)
    /\ UNCHANGED <<hour, chat, registry, toolVars>>

\* POST /auth/verify-email
verify_email(token) ==
    /\ IF FindByVerificationToken(token, hour) = {}
       THEN /\ reply' = AuthReply("verify-email", "", "", token, 400,
                                  "Invalid or expired verification token", NoAccess)
            /\ UNCHANGED users
       ELSE \E e \in FindByVerificationToken(token, hour) :
               IF users[e].is_verified
               THEN /\ reply' = AuthReply("verify-email", "", "", token, 400,
                                          "Email already verified", NoAccess)
                    /\ UNCHANGED users
               ELSE /\ users' = [users EXCEPT ![e].is_verified = TRUE,
                                              ![e].verification_token = NoToken,
                                              ![e].verification_token_expires = 0]
                    /\ reply' = AuthReply("verify-email", "", "", token, 200,
                                          "Email verified successfully", NoAccess)
    /\ UNCHANGED <<issued, hour, chat, registry, toolVars>>

\* The check of the verification left out.
LoginRefusalUnverified(email, password) ==
    IF ~FindByEmail(email) THEN "Invalid email or password"
    ELSE IF ~users[email].is_active THEN "Account is deactivated"
    ELSE IF ~verify_password(password, users[email].password)
         THEN "Invalid email or password"
    ELSE ""

\* The four checks of login_user, in their order: the 401 detail, or "" when
\* the login goes through.
LoginRefusal(email, password) ==
    IF ~FindByEmail(email) THEN "Invalid email or password"
    ELSE IF ~users[email].is_active THEN "Account is deactivated"
    ELSE IF ~verify_password(password, users[email].password)
         THEN "Invalid email or password"
    ELSE IF ~users[email].is_verified
         THEN "Please verify your email before logging in"
    ELSE ""

\* POST /auth/login
login_user(email, password) ==
    /\ IF LoginRefusal(email, password) # ""
       THEN /\ reply' = AuthReply("login", email, password, NoToken, 401,
                                  LoginRefusal(email, password), NoAccess)
            /\ UNCHANGED users
       ELSE /\ users' = [users EXCEPT ![email].last_login = hour]
            /\ reply' = AuthReply("login", email, password, NoToken, 200, "",
                                  create_access_token(email))
    /\ UNCHANGED <<issued, hour, chat, registry, toolVars>>

\* POST /auth/resend-verification
resend_verification_email(email) ==
    /\ IF ~FindByEmail(email)
       THEN /\ reply' = AuthReply("resend-verification", email, "", NoToken, 200,
                                  ResendSent, NoAccess)
            /\ UNCHANGED <<users, issued>>
       ELSE IF users[email].is_verified
       THEN /\ reply' = AuthReply("resend-verification", email, "", NoToken, 200,
                                  ResendVerified, NoAccess)
            /\ UNCHANGED <<users, issued>>
       ELSE /\ issued < MaxTokens
            /\ issued' = issued + 1
            /\ users' = [users EXCEPT
                           ![email].verification_token = issued + 1,
                           ![email].verification_token_expires = hour + verification_ttl]
            /\ reply' = AuthReply("resend-verification", email, "", NoToken, 200,
                                  ResendSent, NoAccess)
    /\ UNCHANGED <<hour, chat, registry, toolVars>>

\* POST /auth/forgot-password
forgot_password(email) ==
    /\ IF ~FindByEmail(email)
       THEN /\ reply' = AuthReply("forgot-password", email, "", NoToken, 200,
                                  ForgotSent, NoAccess)
            /\ UNCHANGED <<users, issued>>
       ELSE /\ issued < MaxTokens
            /\ issued' = issued + 1
            /\ users' = [users EXCEPT
                           ![email].password_reset_token = issued + 1,
                           ![email].password_reset_expires = hour + reset_ttl]
            /\ reply' = AuthReply("forgot-password", email, "", NoToken, 200,
                                  ForgotSent, NoAccess)
    /\ UNCHANGED <<hour, chat, registry, toolVars>>

\* The new password set and the reset token left in place.
ResetUserKeepsToken(user, new_password) ==
    [user EXCEPT !.password = hash_password(new_password)]

\* $set password, $unset password_reset_token and password_reset_expires
ResetUser(user, new_password) ==
    [user EXCEPT !.password = hash_password(new_password),
                 !.password_reset_token = NoToken,
                 !.password_reset_expires = 0]

\* POST /auth/reset-password
reset_password(token, new_password) ==
    /\ IF FindByResetToken(token, hour) = {}
       THEN /\ reply' = AuthReply("reset-password", "", new_password, token, 400,
                                  "Invalid or expired reset token", NoAccess)
            /\ UNCHANGED users
       ELSE \E e \in FindByResetToken(token, hour) :
               /\ users' = [users EXCEPT ![e] = ResetUser(@, new_password)]
               /\ reply' = AuthReply("reset-password", "", new_password, token, 200,
                                     "Password reset successfully", NoAccess)
    /\ UNCHANGED <<issued, hour, chat, registry, toolVars>>

\* An hour passes.
TickHour ==
    /\ hour < MaxHour
    /\ hour' = hour + 1
    /\ UNCHANGED <<users, issued, reply, chat, registry, toolVars>>


\* ------------------------------------------------- app.py: POST /message
\* limit=20 of db.request_history.find
history_limit == 20

\* A session id: one the client sends, or the n-th one uuid4 makes.
ClientSession == [client |-> TRUE, n |-> 1]
NoSession == [client |-> TRUE, n |-> 0]
Uuid(n) == [client |-> FALSE, n |-> n]

\* A stored message; its content is its place in the collection, so that no
\* two messages have the same content.
Message(session_id, role, content) ==
    [session_id |-> session_id, role |-> role, content |-> content]

\* db.request_history.find(filter={"session_id": session_id}, limit=20): the
\* messages of the session in insertion order, the first 20 of them.
FindLimited(history, session_id) ==
    LET found == SelectSeq(history, LAMBDA msg : msg.session_id = session_id)
    IN  SubSeq(found, 1, Min(Len(found), history_limit))

\* EasyInputMessageParam(content=x['content'], status='completed', role=x['role'])
InputMessages(found) ==
    [k \in 1..Len(found) |-> [content |-> found[k].content, role |-> found[k].role]]

ChatInit ==
    /\ request_history = <<>>
    /\ uuids = 0
    /\ failures = 0

\* POST /message: the user message is stored, the history of the session is
\* read and handed to the agent; its answer is stored, unless the run raises.
send_message(sent_id, answered) ==
    /\ Len(request_history) < MaxMessages
    /\ sent_id = NoSession => uuids < MaxUuids
    /\ ~answered => failures < MaxFailures
    /\ LET session_id == IF sent_id = NoSession THEN Uuid(uuids + 1) ELSE sent_id
           content == Len(request_history) + 1
           stored == Append(request_history, Message(session_id, "user", content))
           session_history == InputMessages(FindLimited(stored, session_id))
       IN  /\ uuids' = IF sent_id = NoSession THEN uuids + 1 ELSE uuids
           /\ IF answered
              THEN /\ request_history' =
                         Append(stored, Message(session_id, "assistant", content + 1))
                   /\ failures' = failures
              ELSE /\ request_history' = stored
                   /\ failures' = failures + 1
           /\ reply' = [endpoint |-> "message", session_id |-> session_id,
                        content |-> content, history |-> session_history,
                        status |-> IF answered THEN 200 ELSE 500,
                        before |-> request_history]
    /\ UNCHANGED <<auth, registry, toolVars>>

\* ------------------------------------------- app.py: the agents collection
\* The tools seed_tools upserts: scrape_multiple_links, scrape_web_page,
\* create_csv_file, create_agent.
ToolIds == 1..4
CreateAgentToolId == 4

\* An id in a request: a string that is a valid ObjectId (and names the n-th
\* document, if there is one) or is not.
Ref(n) == [valid |-> TRUE, n |-> n]
BadRef == [valid |-> FALSE, n |-> 0]

\* The tool ids a request may name: a tool's or no tool's; and the lists of
\* them, with the list of one id that is not an ObjectId.
ToolRefs == {Ref(1), Ref(9)}
ToolRefLists == UNION {[1..n -> ToolRefs] : n \in 0..MaxToolRefs} \cup {<<BadRef>>}

\* The agent ids a request may name.
AgentRefs == {Ref(n) : n \in 1..(MaxAgents + 3)} \cup {BadRef}

\* name, instructions and icon_name of a request, as one value.
AgentNames == {"n1", "n2"}

\* An agent document; is_editable is "true", "false" or "absent".
AgentDoc(name, tool_ids, is_editable) ==
    [name |-> name, tools |-> tool_ids, is_editable |-> is_editable]

\* seed_tools: the two system agents.
SeedAgents ==
    (1 :> AgentDoc("Agent Builder Assistant (system)", <<CreateAgentToolId>>, "false"))
    @@ (2 :> AgentDoc("Web Scraping Assistant (default)", <<1, 2, 3, 4>>, "false"))

AgentsInit ==
    /\ agents = SeedAgents
    /\ inserted = 0

BackendInit ==
    /\ AuthInit
    /\ ChatInit
    /\ AgentsInit
    /\ reply = NoReply

\* ObjectId.is_valid
is_valid(ref) == ref.valid

\* list(map(lambda x: ObjectId(x), request.tools)) raises InvalidId
ToolRefsRaise(refs) == \E k \in 1..Len(refs) : ~is_valid(refs[k])

\* db.tools.find({"_id": {"$in": ids}}): the tools named, each once, in the
\* order of the collection.
FoundTools(refs) ==
    SelectSeq(<<1, 2, 3, 4>>, LAMBDA t : \E k \in 1..Len(refs) : refs[k] = Ref(t))

\* agent.get("is_editable", False)
IsEditable(doc) == doc.is_editable = "true"

\* The count of the tools found never compared.
ToolsMissingNever(refs) == FALSE

\* len(tools) != len(request.tools)
ToolsMissing(refs) == Len(FoundTools(refs)) # Len(refs)

AgentReply(endpoint, ref, name, refs, status, detail) ==
    [endpoint |-> endpoint, ref |-> ref, name |-> name, refs |-> refs,
     status |-> status, detail |-> detail, before |-> agents]

\* The id of the next document inserted into db.agents.
NextAgentId == 3 + inserted

\* POST /agents
create_agent_endpoint(name, refs) ==
    /\ inserted < MaxAgents
    /\ IF ToolRefsRaise(refs)
       THEN /\ reply' = AgentReply("POST /agents", BadRef, name, refs, 500, "InvalidId")
            /\ UNCHANGED <<agents, inserted>>
       ELSE /\ agents' = (NextAgentId :> AgentDoc(name, FoundTools(refs), "true")) @@ agents
            /\ inserted' = inserted + 1
            /\ reply' = AgentReply("POST /agents", Ref(NextAgentId), name, refs, 200,
                                   "created agent")
    /\ UNCHANGED <<auth, chat, toolVars>>

\* The tool create_agent (src/tools.py): the document has no is_editable.
create_agent(name, tool_ids) ==
    /\ inserted < MaxAgents
    /\ agents' = (NextAgentId :> AgentDoc(name, tool_ids, "absent")) @@ agents
    /\ inserted' = inserted + 1
    /\ reply' = AgentReply("create_agent", Ref(NextAgentId), name, <<>>, 200, "True")
    /\ UNCHANGED <<auth, chat, toolVars>>

\* PUT /agents/{agent_id}
update_agent(ref, name, refs) ==
    /\ IF ~is_valid(ref)
       THEN /\ reply' = AgentReply("PUT", ref, name, refs, 400, "Invalid agent id")
            /\ UNCHANGED agents
       ELSE IF ref.n \notin DOMAIN agents
       THEN /\ reply' = AgentReply("PUT", ref, name, refs, 400, "Agent not found")
            /\ UNCHANGED agents
       ELSE IF ~IsEditable(agents[ref.n])
       THEN /\ reply' = AgentReply("PUT", ref, name, refs, 403,
                                   "This agent cannot be edited")
            /\ UNCHANGED agents
       ELSE IF ToolRefsRaise(refs)
       THEN /\ reply' = AgentReply("PUT", ref, name, refs, 200,
                                   "Invalid tool IDs provided")
            /\ UNCHANGED agents
       ELSE IF ToolsMissing(refs)
       THEN /\ reply' = AgentReply("PUT", ref, name, refs, 200,
                                   "One or more tools not found")
            /\ UNCHANGED agents
       ELSE /\ agents' = [agents EXCEPT ![ref.n].name = name,
                                        ![ref.n].tools = FoundTools(refs)]
            /\ reply' = AgentReply("PUT", ref, name, refs, 200,
                                   "Agent updated successfully")
    /\ UNCHANGED <<inserted, auth, chat, toolVars>>

\* DELETE /agents/{agent_id}
delete_agent(ref) ==
    /\ IF ~is_valid(ref)
       THEN /\ reply' = AgentReply("DELETE", ref, "", <<>>, 400, "Invalid agent id")
            /\ UNCHANGED agents
       ELSE IF ref.n \notin DOMAIN agents
       THEN /\ reply' = AgentReply("DELETE", ref, "", <<>>, 404, "Agent not found")
            /\ UNCHANGED agents
       ELSE IF ~IsEditable(agents[ref.n])
       THEN /\ reply' = AgentReply("DELETE", ref, "", <<>>, 403,
                                   "This agent cannot be deleted")
            /\ UNCHANGED agents
       ELSE /\ agents' = [n \in DOMAIN agents \ {ref.n} |-> agents[n]]
            /\ reply' = AgentReply("DELETE", ref, "", <<>>, 200,
                                   "Agent deleted successfully")
    /\ UNCHANGED <<inserted, auth, chat, toolVars>>


\* ------------------------------------------------------ specification
\* The anchors of a page: each <a> element with its URL and its place.
AnchorLists ==
    UNION {{[k \in 1..n |-> [url |-> u[k], anchor |-> k]] : u \in [1..n -> LinkUrls]}
           : n \in 0..MaxAnchors}

MaxLinksArgs == (-1)..MaxMaxLinks

\* A structured extraction of one page: every service on a short page, the
\* fixed and the zero service on the long ones too. The context is a part of
\* the prompts and of nothing else: the free service is tried without one.
InitCsv ==
    /\ \E n \in ShortLens \cup LongLens : web = [u \in AllUrls |-> n]
    /\ anchors = <<>>
    /\ \E svc \in ServiceKinds :
          /\ svc = "free" => web[Parent] \in ShortLens
          /\ service = [job \in Jobs |-> svc]
          /\ context \in {[job \in Jobs |-> c] :
                             c \in IF svc = "free" THEN {""} ELSE Contexts}
    /\ kind = [job \in Jobs |-> IF job = 1 THEN "csv" ELSE "none"]
    /\ max_links = [job \in Jobs |-> 0]

\* A fan-out over the anchors of the parent page, every page one chunk long
\* and every summary call answered; a page may still fail to render.
InitSelect ==
    /\ web = [u \in AllUrls |-> 1]
    /\ anchors \in AnchorLists
    /\ service = [job \in Jobs |-> "steady"]
    /\ kind = [job \in Jobs |-> IF job = 1 THEN "scrape" ELSE "none"]
    /\ context \in {[job \in Jobs |-> c] : c \in Contexts}
    /\ max_links \in {[job \in Jobs |-> m] : m \in MaxLinksArgs}

\* The summarization of a parent page of any length without anchors.
InitSummarize ==
    /\ \E n \in ShortLens : web = [u \in AllUrls |-> n]
    /\ anchors = <<>>
    /\ service = [job \in Jobs |-> "free"]
    /\ kind = [job \in Jobs |-> IF job = 1 THEN "scrape" ELSE "none"]
    /\ context \in {[job \in Jobs |-> c] : c \in Contexts}
    /\ max_links = [job \in Jobs |-> 5]

\* A fan-out over two linked pages, each page empty, one chunk or two chunks
\* long, with the default max_links and without a context.
MixedLens == {0, 1, summary_batch_size + 1}
InitMixed ==
    /\ web \in {w \in [AllUrls -> MixedLens] : w[UrlM] = 1 /\ w[UrlX] = 1}
    /\ anchors = <<[url |-> UrlA, anchor |-> 1], [url |-> UrlB, anchor |-> 2]>>
    /\ service = [job \in Jobs |-> "free"]
    /\ kind = [job \in Jobs |-> IF job = 1 THEN "scrape" ELSE "none"]
    /\ context = [job \in Jobs |-> ""]
    /\ max_links = [job \in Jobs |-> 5]

\* A parent page with anchors of three schemes: httpx, mailto and https.
InitSchemes ==
    /\ web = [u \in AllUrls |-> 1]
    /\ anchors = <<[url |-> UrlX, anchor |-> 1], [url |-> UrlM, anchor |-> 2],
                   [url |-> UrlA, anchor |-> 3]>>
    /\ service = [job \in Jobs |-> "steady"]
    /\ kind = [job \in Jobs |-> IF job = 1 THEN "scrape" ELSE "none"]
    /\ context \in {[job \in Jobs |-> c] : c \in Contexts}
    /\ max_links = [job \in Jobs |-> 5]

Init ==
    /\ clock = 0
    /\ output_dir = FALSE
    /\ fs = <<>>
    /\ InitCsv \/ InitSelect \/ InitSummarize \/ InitMixed \/ InitSchemes
    /\ url = [job \in Jobs |-> Parent]
    /\ pc = [job \in Jobs |-> "idle"]
    /\ closes = [job \in Jobs |-> 0]
    /\ calls = [job \in Jobs |-> <<>>]
    /\ result = [job \in Jobs |-> Unset]
    /\ exit = [job \in Jobs |-> ""]
    /\ visible_text = [job \in Jobs |-> EmptyText]
    /\ row_schema = [job \in Jobs |-> <<>>]
    /\ all_rows = [job \in Jobs |-> <<>>]
    /\ remaining_text = [job \in Jobs |-> EmptyText]
    /\ i = [job \in Jobs |-> 0]
    /\ valid_links = [job \in Jobs |-> <<>>]
    /\ links = [job \in Jobs |-> <<>>]
    /\ zip_filename = [job \in Jobs |-> NoName]
    /\ summaries = [job \in Jobs |-> <<>>]
    /\ j = [job \in Jobs |-> 0]
    /\ launches = [job \in Jobs |-> 0]
    /\ renders = [job \in Jobs |-> <<>>]
    /\ BackendInit

Next ==
    \E job \in Jobs :
       \/ CsvLaunch(job)
       \/ CsvRender(job)
       \/ CsvSchemaCall(job)
       \/ CsvBatchCall(job)
       \/ CsvFinish(job)
       \/ ScrapeLaunch(job)
       \/ ScrapeParent(job)
       \/ ScrapeRank(job)
       \/ ScrapePageGoto(job)
       \/ ScrapeMap(job)
       \/ ScrapeCombine(job)
       \/ ScrapeFinish(job)

Spec == Init /\ [][Next]_vars


\* ------------------------------------------------------------ claims
\* Helpers of the claims.

\* A string of page characters as its runs of consecutive positions.
Rope(text) == IF text = EmptyText THEN <<>> ELSE <<text>>

JoinText(rope, text) ==
    IF text = EmptyText THEN rope
    ELSE IF rope # <<>> /\ rope[Len(rope)].hi = text.lo
         THEN [rope EXCEPT ![Len(rope)].hi = text.hi]
         ELSE Append(rope, text)

RECURSIVE ConcatTexts(_)
ConcatTexts(texts) ==
    IF texts = <<>> THEN <<>>
    ELSE JoinText(ConcatTexts(SubSeq(texts, 1, Len(texts) - 1)), texts[Len(texts)])

CallsOf(job, k, page) ==
    SelectSeq(calls[job], LAMBDA c : c.kind = k /\ c.page = page)

TextsOf(cs) == [n \in 1..Len(cs) |-> cs[n].text]

\* The chunks the batch loop of a job has taken, and those the summary loop
\* has taken of its n-th page.
BatchChunks(job) == TextsOf(CallsOf(job, "batch", 0))
MapChunks(job, n) == TextsOf(CallsOf(job, "map", n))

Archive(job) ==
    IF zip_filename[job] \in DOMAIN fs THEN fs[zip_filename[job]].entries ELSE <<>>

ContentEntries(job) == SelectSeq(Archive(job), LAMBDA e : e.suffix = "json")

\* Every chunk holds 1..window characters and every chunk but the last holds window.
ChunkSizes(chunks, window) ==
    \A n \in 1..Len(chunks) :
       /\ TextLen(chunks[n]) >= 1
       /\ TextLen(chunks[n]) <= window
       /\ n < Len(chunks) => TextLen(chunks[n]) = window

\* The chunks in order are the text: no gap, no overlap, nothing left out.
Tiles(chunks, text, window) ==
    /\ ConcatTexts(chunks) = Rope(text)
    /\ TextLen(text) % window = 0 => \A n \in 1..Len(chunks) : TextLen(chunks[n]) = window

\* The batch loop has run to its end.
BatchLoopDone(job) == kind[job] = "csv" /\ exit[job] \in {"empty", "done"}

\* C1: the chunks of the 4000-character loops, taken in order, concatenate to
\* exactly the text the loop runs over, without overlap or gap; every chunk
\* holds at most 4000 characters and only the last may hold fewer (none does
\* when the length is a multiple of 4000).  For create_csv_file the text is
\* remaining_text, for scrape_multiple_links the visible text of a page.
C1_Chunking ==
    \A job \in Jobs :
       /\ ChunkSizes(BatchChunks(job), 4000)
       /\ BatchLoopDone(job) => Tiles(BatchChunks(job), remaining_text[job], 4000)
       /\ \A n \in 1..Len(links[job]) : ChunkSizes(MapChunks(job, n), 4000)
       /\ \A n \in 1..Len(ContentEntries(job)) :
             LET e == ContentEntries(job)[n]
             IN  Tiles(MapChunks(job, e.page), e.content, 4000)

\* A 9000-character page: the batch loop took 4000 and 1000 characters.
C1_Witness ==
    /\ BatchLoopDone(1)
    /\ Len(BatchChunks(1)) = 2
    /\ TextLen(BatchChunks(1)[1]) = 4000
    /\ TextLen(BatchChunks(1)[2]) = 1000


\* The number of windows a text of n characters is cut into.
NumChunks(n, window) == (n + window - 1) \div window

\* The k-th window of the first n characters of a page.
PageWindow(k, n, window) ==
    IF (k - 1) * window >= n THEN EmptyText
    ELSE [lo |-> (k - 1) * window, hi |-> Min(k * window, n)]

Returned(job) == pc[job] = "returned"

\* The schema call of a job was answered with a schema and seed rows.
SchemaAnswered(job) ==
    /\ calls[job] # <<>>
    /\ calls[job][1].kind = "schema"
    /\ calls[job][1].resp.tag = "ok"

\* A well-formed batch answer without rows: rows absent, null or empty.
ZeroRows(resp) ==
    \/ resp.tag \in {"rows_absent", "rows_null"}
    \/ resp.tag = "ok" /\ resp.rows = <<>>

\* A batch answer that is a failure of the generation service.
BatchFailed(resp) == resp.tag \in {"raise", "not_json", "null"}

AllBatchesZero(job) ==
    \A k \in 1..Len(calls[job]) :
       calls[job][k].kind = "batch" => ZeroRows(calls[job][k].resp)

NoBatchFailed(job) ==
    \A k \in 1..Len(calls[job]) :
       calls[job][k].kind = "batch" => ~BatchFailed(calls[job][k].resp)

\* C2 as stated: under the fixed service a job over a page text of N chunks
\* ends with exactly N rows.
C2_Original ==
    \A job \in Jobs :
       (kind[job] = "csv" /\ service[job] = "fixed" /\ Returned(job)
        /\ calls[job] # <<>>)
       => Len(all_rows[job]) = NumChunks(web[url[job]], 4000)

\* C2 (amended): under the service that answers every call with schema
\* ["a","b"] and the one row {"a":"1","b":"2"}, a job whose page rendered ends
\* "done" with exactly max(N, 1) rows, N the number of 4000-character chunks
\* of the page text cut to 48000 characters: the k-th row is the row of the
\* k-th call, and the k-th call ran over the k-th chunk.
C2_FixedService ==
    \A job \in Jobs :
       (kind[job] = "csv" /\ service[job] = "fixed" /\ Returned(job)
        /\ calls[job] # <<>>)
       => LET cut == Min(web[url[job]], 48000)
              count == Max(NumChunks(cut, 4000), 1)
          IN  /\ exit[job] = "done"
              /\ Len(all_rows[job]) = count
              /\ Len(calls[job]) = count
              /\ \A k \in 1..count :
                    /\ all_rows[job][k] = [call |-> k, n |-> 1, keys |-> {"a", "b"}]
                    /\ calls[job][k].text = PageWindow(k, cut, 4000)

\* A page of 48001 characters under the fixed service: 12 rows.
C2_Witness ==
    /\ kind[1] = "csv" /\ service[1] = "fixed" /\ exit[1] = "done"
    /\ web[url[1]] = 48001
    /\ Len(all_rows[1]) = 12

\* C3 as stated: when every batch call returns zero rows, the job ends
\* "empty" with result None and no CSV file.
C3_Original ==
    \A job \in Jobs :
       (kind[job] = "csv" /\ Returned(job) /\ SchemaAnswered(job)
        /\ AllBatchesZero(job))
       => (exit[job] = "empty" /\ result[job] = None /\ DOMAIN fs = {})

\* C3 (amended): when the schema call returns no seed rows and every batch
\* call returns zero rows, the job ends "empty" with result None and no CSV
\* file is written.
C3_ZeroRows ==
    \A job \in Jobs :
       (kind[job] = "csv" /\ Returned(job) /\ SchemaAnswered(job)
        /\ calls[job][1].resp.rows = <<>> /\ AllBatchesZero(job))
       => (exit[job] = "empty" /\ result[job] = None /\ DOMAIN fs = {})

\* Twelve calls without a row: the job ended "empty".
C3_Witness ==
    /\ kind[1] = "csv" /\ Returned(1) /\ SchemaAnswered(1)
    /\ calls[1][1].resp.rows = <<>> /\ AllBatchesZero(1)
    /\ Len(calls[1]) = 12
    /\ exit[1] = "empty"

\* C4: when the schema call and every batch call went through and all_rows is
\* empty at the end, create_csv_file returns None by the empty return, not by
\* the except clause, and has created neither output/ nor any file.
C4_EmptyReturn ==
    \A job \in Jobs :
       (kind[job] = "csv" /\ Returned(job) /\ SchemaAnswered(job)
        /\ NoBatchFailed(job) /\ all_rows[job] = <<>>)
       => /\ exit[job] = "empty"
          /\ result[job] = None
          /\ ~output_dir
          /\ DOMAIN fs = {}

\* An empty return after two batch calls, one answered {"rows": null}.
C4_Witness ==
    /\ kind[1] = "csv" /\ exit[1] = "empty"
    /\ Len(calls[1]) = 3
    /\ calls[1][2].resp.tag = "rows_null"
    /\ all_rows[1] = <<>>

\* C5 as stated: when no generation call failed and all_rows is not empty at
\* the end, the job ends "done": the file named by the result holds the
\* schema as header and all the rows, whatever their keys.
C5_Original ==
    \A job \in Jobs :
       (kind[job] = "csv" /\ Returned(job) /\ SchemaAnswered(job)
        /\ NoBatchFailed(job) /\ all_rows[job] # <<>>)
       => /\ exit[job] = "done"
          /\ result[job].tag = "url"
          /\ result[job].file \in DOMAIN fs
          /\ fs[result[job].file] = [header |-> row_schema[job], rows |-> all_rows[job]]

\* C6 as stated: the result of a run that ended with zero rows differs from
\* the result of a run that failed.
C6_Original ==
    \A job \in Jobs :
       (kind[job] = "csv" /\ exit[job] = "empty") => result[job] # CsvErrorResult

\* The http(s) anchors of the parent page, in document order.
IsHttpOrHttps(link) == link.url.scheme \in {Http, Https}
Candidates == SelectSeq(anchors, IsHttpOrHttps)

\* The first k elements of a sequence (none when k is not positive).
FirstK(seq, k) == SubSeq(seq, 1, Min(Max(k, 0), Len(seq)))

UrlsOf(ls) == [k \in 1..Len(ls) |-> ls[k].url]

\* The job has chosen the links it processes.
Selected(job) ==
    /\ kind[job] = "scrape"
    /\ \/ pc[job] \in {"page", "map"}
       \/ pc[job] = "returned" /\ exit[job] = "done"

RankCalls(job) == SelectSeq(calls[job], LAMBDA c : c.kind = "rank")

\* C7 as stated: with an empty context no ranking call is issued and the links
\* after the parent are the first max_links-1 http(s) candidates in order.
C7_Original ==
    \A job \in Jobs :
       (kind[job] = "scrape" /\ context[job] = "")
       => /\ RankCalls(job) = <<>>
          /\ Selected(job) =>
                Tail(links[job]) = UrlsOf(FirstK(Candidates, max_links[job] - 1))

\* C8 as stated: with a context and a candidate, one ranking call is issued
\* and the links after the parent are the candidates named in relevant_urls,
\* in document order, duplicates kept, cut to the first max_links-1.
C8_Original ==
    \A job \in Jobs :
       (Selected(job) /\ context[job] # "" /\ Candidates # <<>>)
       => /\ Len(RankCalls(job)) = 1
          /\ calls[job][1].kind = "rank"
          /\ Tail(links[job]) =
                UrlsOf(FirstK(SelectSeq(Candidates,
                                        LAMBDA l : l.url \in Range(calls[job][1].resp.urls)),
                              max_links[job] - 1))

\* C9 as stated: the parent is the first page and at most max_links-1 further
\* links are processed.
C9_Original ==
    \A job \in Jobs :
       Selected(job)
       => /\ Head(links[job]) = url[job]
          /\ Len(links[job]) - 1 <= Max(max_links[job] - 1, 0)

\* The calls issued for the n-th page of a job.
PageCalls(job, n) == SelectSeq(calls[job], LAMBDA c : c.page = n)

PageEntries(job, n) == SelectSeq(Archive(job), LAMBDA e : e.page = n)

\* C10: for a page of exactly one chunk (1..4000 characters) at most one
\* generation call is issued, a map call over the whole text and never a
\* reduce call; when that call answers, its answer is the summary of both
\* archive entries of the page, and without it the page has no entry.
C10_SingleChunk ==
    \A job \in Jobs :
       \A n \in 1..Len(links[job]) :
          web[links[job][n]] \in 1..4000
          => LET cs == PageCalls(job, n)
                 es == PageEntries(job, n)
             IN  /\ Len(cs) <= 1
                 /\ \A k \in 1..Len(cs) :
                       /\ cs[k].kind = "map"
                       /\ cs[k].text = PageText(web[links[job][n]])
                 /\ es # <<>> =>
                       /\ Len(cs) = 1
                       /\ cs[1].resp.tag = "ok"
                       /\ Len(es) = 2
                       /\ \E at \in 1..Len(calls[job]) :
                             /\ calls[job][at] = cs[1]
                             /\ es[1].summary = at
                             /\ es[2].summary = at
                 /\ (n <= i[job] /\ Len(cs) = 1 /\ cs[1].resp.tag = "ok") => Len(es) = 2

\* A parent page of 4000 characters: one map call, whose answer is the summary.
C10_Witness ==
    /\ kind[1] = "scrape" /\ exit[1] = "done"
    /\ web[Parent] = 4000
    /\ Len(calls[1]) = 1
    /\ calls[1][1].kind = "map"
    /\ Len(Archive(1)) = 2
    /\ Archive(1)[1].summary = 1

\* The places in the call log of a job of the calls of one kind for its n-th page.
CallPlaces(job, k, n) ==
    SelectSeq([at \in 1..Len(calls[job]) |-> at],
              LAMBDA at : calls[job][at].kind = k /\ calls[job][at].page = n)

AllOk(job, places) == \A m \in 1..Len(places) : calls[job][places[m]].resp.tag = "ok"

\* C11: for a page of k > 1 chunks the map calls are issued in chunk order,
\* the m-th over the m-th 4000-character window, and there are never more than
\* k of them; a reduce call is issued only after all k map calls have
\* answered, there is at most one, and it is handed the k partial summaries in
\* chunk order; once the k map calls have answered and the page is finished
\* the reduce call has been issued, and its answer is the summary of both
\* archive entries of the page.
C11_MapReduce ==
    \A job \in Jobs :
       \A n \in 1..Len(links[job]) :
          LET len == web[links[job][n]]
              k == NumChunks(len, 4000)
              maps == CallPlaces(job, "map", n)
              reds == CallPlaces(job, "reduce", n)
              es == PageEntries(job, n)
          IN  k > 1
              => /\ Len(maps) <= k
                 /\ \A m \in 1..Len(maps) :
                       /\ calls[job][maps[m]].text = PageWindow(m, len, 4000)
                       /\ m < Len(maps) => calls[job][maps[m]].resp.tag = "ok"
                 /\ Len(reds) <= 1
                 /\ reds # <<>> =>
                       /\ Len(maps) = k
                       /\ AllOk(job, maps)
                       /\ maps[k] < reds[1]
                       /\ calls[job][reds[1]].parts = maps
                 /\ (n <= i[job] /\ Len(maps) = k /\ AllOk(job, maps)) => Len(reds) = 1
                 /\ es # <<>> =>
                       /\ Len(reds) = 1
                       /\ AllOk(job, reds)
                       /\ Len(es) = 2
                       /\ es[1].summary = reds[1]
                       /\ es[2].summary = reds[1]
                 /\ (n <= i[job] /\ Len(reds) = 1 /\ AllOk(job, reds)) => Len(es) = 2

\* A parent page of 12001 characters: four map calls, then the reduce call
\* over their four answers, whose own answer is the summary in the archive.
C11_Witness ==
    /\ kind[1] = "scrape" /\ exit[1] = "done"
    /\ web[Parent] = 12001
    /\ Len(calls[1]) = 5
    /\ \A m \in 1..4 : calls[1][m].kind = "map"
    /\ calls[1][5].kind = "reduce"
    /\ calls[1][5].parts = <<1, 2, 3, 4>>
    /\ Len(Archive(1)) = 2
    /\ Archive(1)[1].summary = 5

\* The page.goto calls of a job for its n-th page.
GotosOf(job, n) == SelectSeq(renders[job], LAMBDA g : g.page = n)

\* An exception inside the loop body for the n-th page: page.goto raised, a
\* generation call raised, or summaries[0] raised on a page without a chunk.
PageFailed(job, n) ==
    \/ \E m \in 1..Len(GotosOf(job, n)) : ~GotosOf(job, n)[m].ok
    \/ \E m \in 1..Len(PageCalls(job, n)) : PageCalls(job, n)[m].resp.tag = "raise"
    \/ web[links[job][n]] = 0

\* C12: once the link list exists, an exception while rendering or
\* summarizing one link leaves that link without an archive entry and the loop
\* goes on: a finished link has its two entries exactly when nothing raised
\* for it, the archive holds the entries of the succeeded links in link order,
\* and the call ends only after every link was rendered once, with the URL of
\* the archive as its result.
C12_PerLinkFailure ==
    \A job \in Jobs :
       links[job] # <<>>
       => /\ \A n \in 1..Len(links[job]) :
                /\ PageFailed(job, n) => PageEntries(job, n) = <<>>
                /\ (n <= i[job] /\ ~PageFailed(job, n)) => Len(PageEntries(job, n)) = 2
                /\ n <= i[job] => Len(GotosOf(job, n)) = 1
                /\ n > i[job] + 1 => GotosOf(job, n) = <<>>
          /\ \A e \in 1..Len(Archive(job)) :
                /\ Archive(job)[e].page \in 1..Len(links[job])
                /\ e > 2 => Archive(job)[e].page >= Archive(job)[e - 1].page
          /\ Returned(job) =>
                /\ i[job] = Len(links[job])
                /\ exit[job] = "done"
                /\ result[job] = get_static_url(zip_filename[job])

\* Three links: a map call raised for the parent, the second link failed to
\* render, the third is in the archive, whose URL is returned.
C12_Witness ==
    /\ kind[1] = "scrape" /\ exit[1] = "done"
    /\ Len(links[1]) = 3
    /\ PageCalls(1, 1) # <<>> /\ PageCalls(1, 1)[1].resp.tag = "raise"
    /\ GotosOf(1, 2) = <<Goto(2, FALSE)>>
    /\ PageEntries(1, 1) = <<>> /\ PageEntries(1, 2) = <<>>
    /\ Len(PageEntries(1, 3)) = 2
    /\ result[1].tag = "url"

\* A page.goto of the job raised for the parent URL: the first one, or the one
\* for the first link of the list.
ParentRenderFailed(job) ==
    \E m \in 1..Len(renders[job]) : renders[job][m].page \in {0, 1} /\ ~renders[job][m].ok

\* A generation call of the job for the parent URL raised.
ParentCallFailed(job) ==
    \E m \in 1..Len(calls[job]) :
       calls[job][m].page \in {0, 1} /\ calls[job][m].resp.tag = "raise"

\* C13 as stated: a render failure or a generation failure for the parent URL
\* ends scrape_multiple_links with the error result and create_csv_file with
\* None, and the failed call is the last one of the job.
C13_Original ==
    \A job \in Jobs :
       (Returned(job) /\ (ParentRenderFailed(job) \/ ParentCallFailed(job)))
       => /\ kind[job] = "scrape" => result[job] = ErrorStr
          /\ kind[job] = "csv" => result[job] = None
          /\ calls[job] # <<>> =>
                \A m \in 1..(Len(calls[job]) - 1) : calls[job][m].resp.tag # "raise"

\* The schema answer is not parseable JSON or lacks row_schema or rows.
SchemaMalformed(resp) == resp.tag \in {"not_json", "no_row_schema", "no_rows"}

\* C14: in create_csv_file a schema answer that is not parseable JSON, or
\* that lacks row_schema or rows, ends the job: the schema call stays the only
\* generation call (no retry, no batch call), no row is kept, no CSV file is
\* written and None is returned.
C14_MalformedSchema ==
    \A job \in Jobs :
       (kind[job] = "csv" /\ calls[job] # <<>> /\ SchemaMalformed(calls[job][1].resp))
       => /\ Len(calls[job]) = 1
          /\ Returned(job)
          /\ exit[job] = "failed"
          /\ result[job] = None
          /\ all_rows[job] = <<>>
          /\ DOMAIN fs = {}
          /\ ~output_dir

\* The schema answer of a 9000-character page is an object without rows.
C14_Witness ==
    /\ kind[1] = "csv"
    /\ web[Parent] = 9000
    /\ Len(calls[1]) = 1
    /\ calls[1][1].kind = "schema"
    /\ calls[1][1].resp.tag = "no_rows"
    /\ Returned(1) /\ result[1] = None

\* C15: each job launches the browser once, and every return after the launch
\* has closed it: the normal return, the empty-result return, and the return
\* after an exception of a render, a generation call or the file write.  The
\* browser is not closed while the job is still running.
C15_SessionClosed ==
    \A job \in Jobs :
       /\ launches[job] <= 1
       /\ pc[job] # "idle" => launches[job] = 1
       /\ Returned(job) => closes[job] >= 1
       /\ ~Returned(job) => closes[job] = 0

\* create_csv_file has returned after the write of the CSV file raised, with
\* the browser closed.
C15_Witness ==
    /\ kind[1] = "csv"
    /\ exit[1] = "failed"
    /\ DOMAIN fs # {}
    /\ launches[1] = 1
    /\ closes[1] = 1

\* ------------------------------------------- two concurrent extractions
\* Two create_csv_file jobs over two pages of 4001 characters: a schema call
\* and one batch call each, interleaved in every way.
InitTwoCsv ==
    /\ clock = 0
    /\ output_dir = FALSE
    /\ fs = <<>>
    /\ web = [u \in AllUrls |-> head_size + 1]
    /\ anchors = <<>>
    /\ kind = [job \in Jobs |-> "csv"]
    /\ url = [job \in Jobs |-> IF job = 1 THEN Parent ELSE UrlA]
    /\ context = [job \in Jobs |-> ""]
    /\ max_links = [job \in Jobs |-> 0]
    /\ service = [job \in Jobs |-> "free"]
    /\ pc = [job \in Jobs |-> "idle"]
    /\ closes = [job \in Jobs |-> 0]
    /\ calls = [job \in Jobs |-> <<>>]
    /\ result = [job \in Jobs |-> Unset]
    /\ exit = [job \in Jobs |-> ""]
    /\ visible_text = [job \in Jobs |-> EmptyText]
    /\ row_schema = [job \in Jobs |-> <<>>]
    /\ all_rows = [job \in Jobs |-> <<>>]
    /\ remaining_text = [job \in Jobs |-> EmptyText]
    /\ i = [job \in Jobs |-> 0]
    /\ valid_links = [job \in Jobs |-> <<>>]
    /\ links = [job \in Jobs |-> <<>>]
    /\ zip_filename = [job \in Jobs |-> NoName]
    /\ summaries = [job \in Jobs |-> <<>>]
    /\ j = [job \in Jobs |-> 0]
    /\ launches = [job \in Jobs |-> 0]
    /\ renders = [job \in Jobs |-> <<>>]
    /\ BackendInit

NextCsv ==
    \E job \in Jobs :
       \/ CsvLaunch(job)
       \/ CsvRender(job)
       \/ CsvSchemaCall(job)
       \/ CsvBatchCall(job)
       \/ CsvFinish(job)

SpecTwoCsv == InitTwoCsv /\ [][NextCsv]_vars

\* The rows of an answer as the job reads them: none unless it is well formed.
AnswerRows(resp) == IF resp.tag = "ok" THEN resp.rows ELSE <<>>

\* The rows of the first k answers of a call log, in the order of the calls.
RECURSIVE RowsUpTo(_, _)
RowsUpTo(cs, k) ==
    IF k = 0 THEN <<>>
    ELSE RowsUpTo(cs, k - 1) \o TagRows(k, AnswerRows(cs[k].resp))

\* The batch calls of a job that were answered without an exception.
BatchesTaken(job) ==
    SelectSeq(calls[job], LAMBDA c : c.kind = "batch" /\ ~BatchFailed(c.resp))

\* C16: under every interleaving of two create_csv_file jobs the schema, the
\* accumulated rows and the chunk cursor of each job are what its own page and
\* its own answers alone determine: the schema is that of its own schema
\* answer, the rows are those of its own answers in call order, the cursor has
\* advanced by 4000 for each of its own answered batch calls, and each of its
\* batch calls ran over the window of its own remaining text at that cursor.
C16_JobIsolation ==
    \A job \in Jobs :
       kind[job] = "csv"
       => /\ row_schema[job] =
                IF SchemaAnswered(job) THEN calls[job][1].resp.row_schema ELSE <<>>
          /\ all_rows[job] = RowsUpTo(calls[job], Len(calls[job]))
          /\ i[job] = 4000 * Len(BatchesTaken(job))
          /\ remaining_text[job] =
                IF SchemaAnswered(job)
                THEN PySliceFrom(PageText(Min(web[url[job]], 48000)), 4000)
                ELSE EmptyText
          /\ \A k \in 1..Len(BatchChunks(job)) :
                BatchChunks(job)[k] =
                   PySlice(remaining_text[job], 4000 * (k - 1), 4000 * k)

\* Both jobs are inside their batch loops, the first one call ahead, with
\* different schemas and each with rows of its own.
C16_Witness ==
    /\ pc[1] = "batch" /\ pc[2] = "batch"
    /\ row_schema[1] = <<"a", "b">> /\ row_schema[2] = <<"a">>
    /\ Len(calls[1]) = 2 /\ Len(calls[2]) = 1
    /\ Len(all_rows[1]) = 2 /\ Len(all_rows[2]) = 1
    /\ all_rows[1][2].keys # all_rows[2][1].keys

\* The n-th page of a job rendered and every generation call for it answered.
PageSucceeded(job, n) ==
    /\ GotosOf(job, n) = <<Goto(n, TRUE)>>
    /\ \A m \in 1..Len(PageCalls(job, n)) : PageCalls(job, n)[m].resp.tag = "ok"

\* C17 as stated: every processed page that rendered and whose generation
\* calls all answered, a page with an empty visible text included, has in the
\* archive one content entry (its URL, its raw content, its summary) and one
\* summary entry with the same summary.
C17_Original ==
    \A job \in Jobs :
       \A n \in 1..Len(links[job]) :
          (n <= i[job] /\ PageSucceeded(job, n))
          => LET es == PageEntries(job, n)
             IN  /\ Len(es) = 2
                 /\ es[1].suffix = "json"
                 /\ es[1].url = links[job][n]
                 /\ es[1].content = PageText(web[links[job][n]])
                 /\ es[2].suffix = "summary.txt"
                 /\ es[2].summary = es[1].summary

\* The CSV files in output/.
CsvFiles == {f \in DOMAIN fs : f.prefix = "structured_data"}

\* C18: the schema of a job is the row_schema of its first generation answer
\* and nothing else at any later time: every batch prompt carries exactly that
\* schema and the header of the CSV file is exactly that schema, also when
\* batch rows come with fewer or other keys.  Before that answer there is no
\* schema and no batch call.
C18_SchemaFixed ==
    \A job \in Jobs :
       kind[job] = "csv"
       => IF SchemaAnswered(job)
          THEN LET first == calls[job][1].resp.row_schema
               IN  /\ row_schema[job] = first
                   /\ \A k \in 2..Len(calls[job]) :
                         /\ calls[job][k].kind = "batch"
                         /\ calls[job][k].schema = first
                   /\ \A f \in CsvFiles : fs[f].header = first
          ELSE /\ row_schema[job] = <<>>
               /\ Len(calls[job]) <= 1
               /\ CsvFiles = {}

\* Schema ["a","b"] from the first answer, two batch answers whose rows have
\* the key "a" only: both batch prompts and the CSV header carry ["a","b"].
C18_Witness ==
    /\ kind[1] = "csv" /\ exit[1] = "done"
    /\ Len(calls[1]) = 3
    /\ calls[1][1].resp.row_schema = <<"a", "b">>
    /\ calls[1][2].resp.tag = "ok" /\ calls[1][2].resp.rows = <<{"a"}>>
    /\ calls[1][3].resp.tag = "ok" /\ calls[1][3].resp.rows = <<{"a"}>>
    /\ calls[1][3].schema = <<"a", "b">>
    /\ \E f \in CsvFiles : fs[f].header = <<"a", "b">>

\* A batch answer that signals no rows: rows absent, null or empty, or the
\* JSON null the batch prompt asks for.
NoRowsSignal(resp) == ZeroRows(resp) \/ resp.tag = "null"

\* The job stopped at its k-th call: it returned right after it without
\* writing a file.
StoppedAt(job, k) ==
    /\ Returned(job)
    /\ k = Len(calls[job])
    /\ exit[job] = "failed"
    /\ CsvFiles = {}

\* C19 as stated: the batch calls run one after the other over the chunks in
\* order, and a batch answer that signals no rows (rows absent, null or empty,
\* or the null the prompt asks for) adds no row and does not stop the job: the
\* next chunk, if there is one, is still sent.
C19_Original ==
    \A job \in Jobs :
       kind[job] = "csv"
       => \A k \in 2..Len(calls[job]) :
             /\ calls[job][k].text =
                   PySlice(remaining_text[job], 4000 * (k - 2), 4000 * (k - 1))
             /\ NoRowsSignal(calls[job][k].resp) =>
                   /\ \A m \in 1..Len(all_rows[job]) : all_rows[job][m].call # k
                   /\ ~StoppedAt(job, k)
                   /\ (Returned(job) /\ k = Len(calls[job])) =>
                         calls[job][k].text.hi = remaining_text[job].hi

\* The place of a row: the call that returned it and its place in the answer.
RowBefore(r, s) == r.call < s.call \/ (r.call = s.call /\ r.n < s.n)

\* C20: the accumulated rows of a job are the seed rows of the schema answer
\* followed by the rows of each batch answer, the batch calls in chunk order:
\* every returned row is there exactly once, with the keys it came with, no
\* other row is there, the rows stand in the order of the calls and within an
\* answer in the order of the answer; equal rows of different answers are all
\* kept, and a CSV file written without an exception holds exactly these rows.
C20_RowsKept ==
    \A job \in Jobs :
       kind[job] = "csv"
       => LET rows == all_rows[job]
              cs == calls[job]
          IN  /\ \A k \in 2..Len(cs) : cs[k].text.lo = 4000 * (k - 1)
              /\ \A k \in 1..Len(cs) :
                    \A m \in 1..Len(AnswerRows(cs[k].resp)) :
                       Cardinality({p \in 1..Len(rows) :
                                      rows[p].call = k /\ rows[p].n = m}) = 1
              /\ \A p \in 1..Len(rows) :
                    /\ rows[p].call \in 1..Len(cs)
                    /\ rows[p].n \in 1..Len(AnswerRows(cs[rows[p].call].resp))
                    /\ rows[p].keys = AnswerRows(cs[rows[p].call].resp)[rows[p].n]
                    /\ p > 1 => RowBefore(rows[p - 1], rows[p])
              /\ exit[job] = "done" => \A f \in CsvFiles : fs[f].rows = rows

\* Three answers with one row each, the two batch rows equal: three rows in
\* the order of the calls, all three in the CSV file.
C20_Witness ==
    /\ kind[1] = "csv" /\ exit[1] = "done"
    /\ Len(calls[1]) = 3
    /\ calls[1][1].resp.rows = <<{"a", "b"}>>
    /\ calls[1][2].resp.tag = "ok" /\ calls[1][2].resp.rows = <<{"a"}>>
    /\ calls[1][3].resp.tag = "ok" /\ calls[1][3].resp.rows = <<{"a"}>>
    /\ all_rows[1] = <<[call |-> 1, n |-> 1, keys |-> {"a", "b"}],
                       [call |-> 2, n |-> 1, keys |-> {"a"}],
                       [call |-> 3, n |-> 1, keys |-> {"a"}]>>
    /\ \E f \in CsvFiles : fs[f].rows = all_rows[1]

\* C21: in create_csv_file a batch call that raises, or whose answer cannot be
\* read (not JSON, or the JSON null), ends the job at that call: it is the last
\* generation call, no CSV file is written whatever rows were accumulated
\* before, and None is returned.
C21_BatchAborts ==
    \A job \in Jobs :
       kind[job] = "csv"
       => \A k \in 2..Len(calls[job]) :
             BatchFailed(calls[job][k].resp)
             => /\ k = Len(calls[job])
                /\ Returned(job)
                /\ exit[job] = "failed"
                /\ result[job] = None
                /\ CsvFiles = {}
                /\ ~output_dir

\* A seed row and a row of the first batch are accumulated, the second batch
\* call raises: no file, None.
C21_Witness ==
    /\ kind[1] = "csv"
    /\ Len(calls[1]) = 3
    /\ calls[1][3].resp.tag = "raise"
    /\ Len(all_rows[1]) = 2
    /\ InRange(NextOffset(i[1]), remaining_text[1])
    /\ Returned(1) /\ result[1] = None /\ CsvFiles = {}

\* C22: for a page text of L characters, T = min(L, 48000): the first
\* generation call of create_csv_file is the schema call over characters
\* [0, 4000) of the cut text, the k-th call after it is a batch call over the
\* k-th 4000-character window of [4000, T), and there are never more than
\* N = ceil(max(0, T - 4000) / 4000) batch calls; a job whose loop has run to
\* its end has issued exactly 1 + N calls, which is at most 12.
C22_CallCount ==
    \A job \in Jobs :
       kind[job] = "csv"
       => LET T == Min(web[url[job]], 48000)
              N == NumChunks(Max(0, T - 4000), 4000)
              cs == calls[job]
          IN  /\ Len(cs) <= 1 + N
              /\ 1 + N <= 12
              /\ \A k \in 1..Len(cs) :
                    /\ cs[k].kind = IF k = 1 THEN "schema" ELSE "batch"
                    /\ cs[k].text = PageWindow(k, T, 4000)
              /\ BatchLoopDone(job) => Len(cs) = 1 + N
              /\ (Returned(job) /\ Len(cs) < 1 + N) => exit[job] = "failed"

\* A 9000-character page: the schema call over 4000 characters, then batch
\* calls over 4000 and 1000 characters, and the job has returned.
C22_Witness ==
    /\ kind[1] = "csv" /\ web[Parent] = 9000
    /\ Returned(1)
    /\ Len(calls[1]) = 3
    /\ calls[1][1].kind = "schema" /\ calls[1][1].text = [lo |-> 0, hi |-> 4000]
    /\ calls[1][2].kind = "batch" /\ calls[1][2].text = [lo |-> 4000, hi |-> 8000]
    /\ calls[1][3].kind = "batch" /\ calls[1][3].text = [lo |-> 8000, hi |-> 9000]

\* C23 as stated: every link after the parent in the list of a job, every
\* link handed to the ranking call and every link rendered has the scheme http
\* or https.
C23_Original ==
    \A job \in Jobs :
       /\ \A n \in 2..Len(links[job]) : links[job][n].scheme \in {Http, Https}
       /\ \A k \in 1..Len(RankCalls(job)) :
             \A m \in 1..Len(RankCalls(job)[k].parts) :
                IsHttpOrHttps(RankCalls(job)[k].parts[m])
       /\ \A m \in 1..Len(renders[job]) :
             renders[job][m].page >= 2
             => links[job][renders[job][m].page].scheme \in {Http, Https}

\* C25 as stated: a job that has returned has closed its browser exactly once.
C25_Original ==
    \A job \in Jobs : Returned(job) => closes[job] = 1

\* C26 as stated: two concurrent create_csv_file jobs that both wrote their
\* file return different file identifiers, and the file of each holds the
\* schema and the rows of that job.
C26_Original ==
    (kind[1] = "csv" /\ kind[2] = "csv" /\ exit[1] = "done" /\ exit[2] = "done")
    => /\ result[1] # result[2]
       /\ \A job \in Jobs :
             fs[result[job].file] = CsvFile(row_schema[job], all_rows[job])

\* ------------------------------------------------- the HTTP API alone
\* No extraction or fan-out job runs.
ToolsIdle ==
    /\ clock = 0
    /\ output_dir = FALSE
    /\ fs = <<>>
    /\ web = [u \in AllUrls |-> 0]
    /\ anchors = <<>>
    /\ kind = [job \in Jobs |-> "none"]
    /\ url = [job \in Jobs |-> Parent]
    /\ context = [job \in Jobs |-> ""]
    /\ max_links = [job \in Jobs |-> 0]
    /\ service = [job \in Jobs |-> "free"]
    /\ pc = [job \in Jobs |-> "idle"]
    /\ closes = [job \in Jobs |-> 0]
    /\ calls = [job \in Jobs |-> <<>>]
    /\ result = [job \in Jobs |-> Unset]
    /\ exit = [job \in Jobs |-> ""]
    /\ visible_text = [job \in Jobs |-> EmptyText]
    /\ row_schema = [job \in Jobs |-> <<>>]
    /\ all_rows = [job \in Jobs |-> <<>>]
    /\ remaining_text = [job \in Jobs |-> EmptyText]
    /\ i = [job \in Jobs |-> 0]
    /\ valid_links = [job \in Jobs |-> <<>>]
    /\ links = [job \in Jobs |-> <<>>]
    /\ zip_filename = [job \in Jobs |-> NoName]
    /\ summaries = [job \in Jobs |-> <<>>]
    /\ j = [job \in Jobs |-> 0]
    /\ launches = [job \in Jobs |-> 0]
    /\ renders = [job \in Jobs |-> <<>>]

InitApi == ToolsIdle /\ BackendInit

NextAuth ==
    \/ \E email \in Emails, password \in Passwords : register_user(email, password)
    \/ \E token \in Tokens : verify_email(token)
    \/ \E email \in Emails, password \in Passwords : login_user(email, password)
    \/ \E email \in Emails : resend_verification_email(email)
    \/ \E email \in Emails : forgot_password(email)
    \/ \E token \in Tokens, password \in Passwords : reset_password(token, password)
    \/ TickHour

SpecAuth == InitApi /\ [][NextAuth]_vars

NextChat ==
    \E sent_id \in {ClientSession, NoSession}, answered \in BOOLEAN :
       send_message(sent_id, answered)

SpecChat == InitApi /\ [][NextChat]_vars

NextAgents ==
    \/ \E name \in AgentNames, refs \in ToolRefLists : create_agent_endpoint(name, refs)
    \/ \E name \in AgentNames, tool_ids \in {<<>>, <<2>>} : create_agent(name, tool_ids)
    \/ \E ref \in AgentRefs, name \in AgentNames, refs \in ToolRefLists :
          update_agent(ref, name, refs)
    \/ \E ref \in AgentRefs : delete_agent(ref)

SpecAgents == InitApi /\ [][NextAgents]_vars

\* C24 as stated: resend-verification and forgot-password answer a request
\* for a registered email, in whatever state the account is, exactly as they
\* answer a request for an email that is not registered.
C24_Original ==
    /\ reply.endpoint = "resend-verification" =>
          /\ reply.status = 200
          /\ reply.detail = "If the email exists, verification link sent"
    /\ reply.endpoint = "forgot-password" =>
          /\ reply.status = 200
          /\ reply.detail = "If the email exists, you will receive a password reset link"

\* C27: a login is answered 200 with an access token only when, at the moment
\* of the request, the account exists, is active, is verified and holds the
\* password submitted; every other login is answered 401 without a token and
\* leaves every user record, last_login included, as it was.
C27_LoginGate ==
    reply.endpoint = "login" =>
       LET before == reply.before
           granted == /\ reply.email \in DOMAIN before
                      /\ before[reply.email].is_active
                      /\ before[reply.email].is_verified
                      /\ verify_password(reply.password, before[reply.email].password)
       IN  IF granted
           THEN /\ reply.status = 200
                /\ reply.access = create_access_token(reply.email)
                /\ users[reply.email].last_login # Never
                /\ [users EXCEPT ![reply.email].last_login =
                                    before[reply.email].last_login] = before
           ELSE /\ reply.status = 401
                /\ reply.access = NoAccess
                /\ users = before

\* The password of a registered account that is not verified yet is submitted
\* and the login is refused.
C27_Witness ==
    /\ reply.endpoint = "login"
    /\ reply.email \in DOMAIN reply.before
    /\ verify_password(reply.password, reply.before[reply.email].password)
    /\ ~reply.before[reply.email].is_verified
    /\ reply.status = 401
    /\ users[reply.email].last_login = Never

\* The tokens some account of the collection holds, as a verification token or
\* as a reset token.
HeldTokens(collection) ==
    {collection[e].verification_token : e \in DOMAIN collection}
       \cup {collection[e].password_reset_token : e \in DOMAIN collection}

\* The tokens the endpoint looks up in the collection.
HeldFor(endpoint, collection) ==
    IF endpoint = "verify-email"
    THEN {collection[e].verification_token : e \in DOMAIN collection}
    ELSE {collection[e].password_reset_token : e \in DOMAIN collection}

\* C28: verification and reset tokens are used once. A verify-email or
\* reset-password that succeeds takes its token out of every record; a token
\* made later is different from every token made before, the one it replaces
\* included, and takes that one's place; and a request that presents a token
\* made earlier which no record holds any more, because it was used or
\* replaced, is answered 400 and changes no user record.
C28_SingleUse ==
    /\ HeldTokens(users) \subseteq 0..issued
    /\ reply.endpoint \in {"verify-email", "reset-password"} =>
          /\ reply.status = 200 =>
                /\ reply.token \in HeldFor(reply.endpoint, reply.before) \ {NoToken}
                /\ reply.token \notin HeldTokens(users)
          /\ reply.token \notin HeldFor(reply.endpoint, reply.before) =>
                /\ reply.status = 400
                /\ users = reply.before
    /\ (reply.endpoint \in {"resend-verification", "forgot-password"}
          /\ users # reply.before) =>
          /\ issued \in HeldTokens(users) \ HeldTokens(reply.before)
          /\ \A e \in DOMAIN users :
                /\ users[e].verification_token
                      \in {reply.before[e].verification_token, issued}
                /\ users[e].password_reset_token
                      \in {reply.before[e].password_reset_token, issued}
          /\ reply.endpoint = "forgot-password" =>
                reply.before[reply.email].password_reset_token
                   \notin HeldTokens(users) \ {NoToken}
          /\ reply.endpoint = "resend-verification" =>
                reply.before[reply.email].verification_token
                   \notin HeldTokens(users) \ {NoToken}

\* The only token made so far was used by a verify-email that succeeded, and
\* a second verify-email presenting it is refused.
C28_Witness ==
    /\ reply.endpoint = "verify-email"
    /\ reply.token = 1
    /\ issued = 1
    /\ \E e \in DOMAIN reply.before : reply.before[e].is_verified
    /\ reply.status = 400
    /\ users = reply.before

\* C29 as stated: whatever the length of the session, the history handed to
\* the agent by POST /message contains the user message of that request, and
\* with it messages the session stored earlier.
C29_Original ==
    reply.endpoint = "message" =>
       /\ \E k \in DOMAIN reply.history :
             reply.history[k] = [content |-> reply.content, role |-> "user"]
       /\ \A k \in DOMAIN reply.history :
             \/ reply.history[k].content = reply.content
             \/ \E earlier \in DOMAIN reply.before :
                   /\ reply.before[earlier].session_id = reply.session_id
                   /\ reply.before[earlier].content = reply.history[k].content

\* C30: PUT /agents/{id} and DELETE /agents/{id} on an agent whose
\* is_editable is false or absent are answered 403 and leave the agents
\* collection as it was; and a PUT that names a tool id which is no tool's
\* leaves the collection as it was.
C30_NotEditable ==
    /\ (/\ reply.endpoint \in {"PUT", "DELETE"}
        /\ reply.ref.valid
        /\ reply.ref.n \in DOMAIN reply.before
        /\ reply.before[reply.ref.n].is_editable \in {"false", "absent"}) =>
          /\ reply.status = 403
          /\ agents = reply.before
    /\ (/\ reply.endpoint = "PUT"
        /\ \E k \in DOMAIN reply.refs :
              reply.refs[k] \notin {Ref(t) : t \in ToolIds}) =>
          agents = reply.before

\* A PUT on an agent the create_agent tool inserted, without is_editable, is
\* refused.
C30_Witness ==
    /\ reply.endpoint = "PUT"
    /\ reply.ref.valid
    /\ reply.ref.n \in DOMAIN reply.before
    /\ reply.before[reply.ref.n].is_editable = "absent"
    /\ reply.refs # <<>>
    /\ reply.status = 403
    /\ agents = reply.before

\* One structured extraction and nothing else: the scenarios of Init with a
\* create_csv_file job.
InitOneCsv == Init /\ kind[1] = "csv"

SpecOneCsv == InitOneCsv /\ [][NextCsv]_vars

====
